---- MODULE Spec2Model ----
(***************************************************************************)
(* A model of the record store of ConsoleLib (src/app.py): the Book        *)
(* record, the Library collection, its JSON backing file and its error     *)
(* log.  The backing file is modelled as the sequence of JSON tokens       *)
(* json.dump writes, and json.load as a parser of such sequences, so that  *)
(* a truncated write is a malformed file and persisting then loading is a  *)
(* real round trip.                                                        *)
(***************************************************************************)
EXTENDS Integers, Sequences, FiniteSets, TLC

\* ------------------------------------------------------------------ bounds
\* The largest number of books held in memory.
MaxBooks == 2
\* The largest id generate_id may hand out.
MaxId == 3
\* The largest number of saves that fail.
MaxFaults == 1

\* ------------------------------------------------------------ input values
\* The two status literals of src/app.py, transliterated: TLA+ strings are
\* ASCII.
AVAILABLE == "v nalichii"
LOANED == "vydana"
\* A mutant of StatusLiterals that lets the unknown status through.
StatusLiterals_Wide == {AVAILABLE, LOANED, "unknown"}

\* The two status literals change_book_status accepts.
StatusLiterals == {AVAILABLE, LOANED}
\* Status arguments a caller may pass, one of them unknown.
StatusInputs == {AVAILABLE, LOANED, "unknown"}
\* Titles a caller may pass to add_book (the initial files hold another).
Titles == {"Dune"}
Authors == {"Silva"}
Years == {1965}
\* Ids a caller may pass to delete_book and change_book_status.
IdInputs == 1 .. MaxId

\* ------------------------------------------------------------- JSON tokens
\* A string value and a number value.
Str(s) == [t |-> "str", s |-> s, n |-> 0]
Num(n) == [t |-> "num", s |-> "", n |-> n]
\* One token of a JSON text: a member of an object (its key and its value),
\* or a bracket or a brace (its sign in place of a key, and no value).  The
\* commas, colons and white space between them are left out.
Member(k, v) == [k |-> k, v |-> v]
Punct(c) == [k |-> c, v |-> [t |-> "punct", s |-> "", n |-> 0]]
EOF == Punct("eof")

\* The token at position i of a text, EOF past its end.
At(text, i) == IF i >= 1 /\ i <= Len(text) THEN text[i] ELSE EOF

IsMember(tok) == tok.v.t \in {"str", "num"}
IsPunct(tok, c) == tok.v.t = "punct" /\ tok.k = c

\* ------------------------------------------------------------------- Book
\* Book.__init__: a new book has no id yet (0 stands for None) and the
\* default status.
Book(title, author, year) ==
    [id |-> 0, title |-> title, author |-> author, year |-> year,
     status |-> AVAILABLE]

\* A mutant of to_dict that forgets the status field.
to_dict_NoStatus(book) ==
    << Member("id", Num(book.id)),
       Member("title", Str(book.title)),
       Member("author", Str(book.author)),
       Member("year", Num(book.year)) >>

\* Book.to_dict: the members of the dict of one book, in order.
to_dict(book) ==
    << Member("id", Num(book.id)),
       Member("title", Str(book.title)),
       Member("author", Str(book.author)),
       Member("year", Num(book.year)),
       Member("status", Str(book.status)) >>

\* ---------------------------------------------------------------- json.dump
\* The tokens of one object: its members in the order of the dict.
DumpObject(pairs) == << Punct("{") >> \o pairs \o << Punct("}") >>

RECURSIVE DumpObjects(_)
\* The tokens of the elements of an array of objects.
DumpObjects(dicts) ==
    IF dicts = <<>> THEN <<>>
    ELSE DumpObject(Head(dicts)) \o DumpObjects(Tail(dicts))

\* json.dump of a list of dicts: the whole text of the array.
json_dump(dicts) == << Punct("[") >> \o DumpObjects(dicts) \o << Punct("]") >>

\* The text save_books writes: json.dump([book.to_dict() for book in books]).
Serialize(bks) == json_dump([i \in 1 .. Len(bks) |-> to_dict(bks[i])])

\* ---------------------------------------------------------------- json.load
ParseFail == [ok |-> FALSE, next |-> 0, val |-> <<>>]

RECURSIVE ParseMembers(_, _, _)
\* The members of an object from position i on, d the members read so far
\* (a later duplicate key replaces an earlier one); ends after the "}".
ParseMembers(text, i, d) ==
    IF IsMember(At(text, i))
    THEN ParseMembers(text, i + 1, (At(text, i).k :> At(text, i).v) @@ d)
    ELSE IF IsPunct(At(text, i), "}")
         THEN [ok |-> TRUE, next |-> i + 1, val |-> d]
         ELSE ParseFail

\* One object starting at position i.
ParseObject(text, i) ==
    IF ~IsPunct(At(text, i), "{") THEN ParseFail
    ELSE ParseMembers(text, i + 1, <<>>)

RECURSIVE ParseObjects(_, _, _)
\* The elements of an array from position i on, up to the closing "]",
\* which must be the last token of the text.
ParseObjects(text, i, acc) ==
    IF IsPunct(At(text, i), "]")
    THEN IF i = Len(text) THEN [ok |-> TRUE, next |-> i + 1, val |-> acc]
         ELSE ParseFail
    ELSE LET o == ParseObject(text, i)
         IN  IF ~o.ok THEN ParseFail
             ELSE ParseObjects(text, o.next, Append(acc, o.val))

\* json.load of a text holding an array of objects: ok is FALSE where
\* json.load raises JSONDecodeError.
json_load(text) ==
    IF ~IsPunct(At(text, 1), "[") THEN ParseFail
    ELSE ParseObjects(text, 2, <<>>)

\* ------------------------------------------------------------ backing file
\* A path with no file behind it.
NoFile == [exists |-> FALSE, text |-> <<>>]
\* A file holding the given text.
FileOf(text) == [exists |-> TRUE, text |-> text]

\* ------------------------------------------------------------------ state
VARIABLES
    pc,        \* "new" before Library(), "ready" after it, "raised" if it raised
    books,     \* Library.books
    file,      \* the content behind Library.data_file
    errlog,    \* the entries appended to Library.error_log
    reported,  \* the number of calls of log_error
    failed,    \* the number of saves that failed
    last       \* the last operation and how it ended

vars == << pc, books, file, errlog, reported, failed, last >>

\* ---------------------------------------------------------------- Library
\* A mutant of generate_id that counts the books instead of taking the
\* largest id.
generate_id_Count(bks) == Len(bks) + 1

\* A mutant of generate_id that reuses the smallest free id.
generate_id_FirstFree(bks) ==
    CHOOSE n \in 1 .. (Len(bks) + 1) :
        /\ \A i \in 1 .. Len(bks) : bks[i].id # n
        /\ \A m \in 1 .. (n - 1) : \E i \in 1 .. Len(bks) : bks[i].id = m

\* A mutant of generate_id that leaves one id out after the largest.
generate_id_Skip(bks) ==
    IF bks = <<>> THEN 1
    ELSE (CHOOSE m \in { bks[i].id : i \in 1 .. Len(bks) } :
              \A i \in 1 .. Len(bks) : bks[i].id <= m) + 2

\* Library.generate_id: max((book.id for book in books), default=0) + 1.
generate_id(bks) ==
    IF bks = <<>> THEN 1
    ELSE (CHOOSE m \in {bks[i].id : i \in 1 .. Len(bks)} :
              \A i \in 1 .. Len(bks) : bks[i].id <= m) + 1

\* A mutant of find_book_by_id that takes the id for a position in the list.
find_book_by_id_AsIndex(bks, book_id) ==
    IF book_id \in 1 .. Len(bks) THEN book_id ELSE 0

\* Library.find_book_by_id: the position of the first book with the id,
\* 0 for None.
find_book_by_id(bks, book_id) ==
    IF \E i \in 1 .. Len(bks) : bks[i].id = book_id
    THEN CHOOSE i \in 1 .. Len(bks) :
             /\ bks[i].id = book_id
             /\ \A j \in 1 .. (i - 1) : bks[j].id # book_id
    ELSE 0

\* list.remove of the book at position i.
RemoveAt(bks, i) == SubSeq(bks, 1, i - 1) \o SubSeq(bks, i + 1, Len(bks))

\* The ways a save can end: the write completes, open() fails, or the write
\* fails after open(..., 'w') has truncated the file.
SaveOutcomes == {"ok", "open_fail", "write_fail"}

\* Where a failing write stops: right after the truncation, or half-way
\* through the text ("end": it does not stop before the last token).
CutPoints == {"start", "half"}

\* The number of tokens a write of text that stops at cut has written.
CutAt(text, cut) ==
    CASE cut = "start" -> 0
      [] cut = "half" -> Len(text) \div 2
      [] cut = "end" -> Len(text) - 1

\* A mutant of save_books that writes all books but the last.
save_books_DropLast(bks, f, outcome, cut) ==
    IF outcome = "ok" /\ bks # <<>>
    THEN FileOf(Serialize(SubSeq(bks, 1, Len(bks) - 1)))
    ELSE f

\* A mutant of save_books that leaves alone a file json.load rejects.
save_books_KeepUnreadable(bks, f, outcome, cut) ==
    IF outcome = "open_fail" \/ (f.exists /\ ~json_load(f.text).ok) THEN f
    ELSE LET text == Serialize(bks)
         IN  IF outcome = "ok" THEN FileOf(text)
             ELSE FileOf(SubSeq(text, 1, CutAt(text, cut)))

\* A mutant of save_books that writes the last book only.
save_books_OnlyLast(bks, f, outcome, cut) ==
    IF outcome = "open_fail" THEN f
    ELSE LET text == IF bks = <<>> THEN Serialize(bks)
                     ELSE Serialize(<< bks[Len(bks)] >>)
         IN  IF outcome = "ok" THEN FileOf(text)
             ELSE FileOf(SubSeq(text, 1, CutAt(text, cut)))

\* Library.save_books, the file it leaves: the whole serialization; the file
\* as it was when open() fails; the tokens written before the failure when
\* the write fails after open(..., 'w') has truncated the file.
save_books(bks, f, outcome, cut) ==
    IF outcome = "open_fail" THEN f
    ELSE LET text == Serialize(bks)
         IN  IF outcome = "ok" THEN FileOf(text)
             ELSE FileOf(SubSeq(text, 1, CutAt(text, cut)))

\* A mutant of log_error that appends nothing.
log_error_Drop(log, message, logok) == log

\* Library.log_error, the error log it leaves: one more entry, or the log as
\* it was when the append fails (the failure is swallowed).
log_error(log, message, logok) ==
    IF logok THEN Append(log, [error |-> message]) ELSE log

\* The keys load_books reads from each entry.
BookKeys == {"title", "author", "year", "id", "status"}

RECURSIVE LoadEntries(_, _)
\* The loop of load_books over the parsed entries: raised is "KeyError" when
\* an entry lacks a key, and books the books appended before it.
LoadEntries(data, acc) ==
    IF data = <<>> THEN [raised |-> "none", books |-> acc]
    ELSE LET d == Head(data)
         IN  IF BookKeys \subseteq DOMAIN d
             THEN LoadEntries(Tail(data),
                      Append(acc,
                          [Book(d["title"].s, d["author"].s, d["year"].n)
                               EXCEPT !.id = d["id"].n,
                                      !.status = d["status"].s]))
             ELSE [raised |-> "KeyError", books |-> acc]

\* A mutant of load_books that drops the report of a malformed file.
load_books_Silent(f) ==
    IF ~f.exists THEN [raised |-> "none", fault |-> FALSE, books |-> <<>>]
    ELSE IF ~json_load(f.text).ok
         THEN [raised |-> "none", fault |-> FALSE, books |-> <<>>]
         ELSE LET r == LoadEntries(json_load(f.text).val, <<>>)
              IN  [raised |-> r.raised, fault |-> FALSE, books |-> r.books]

\* A mutant of load_books that treats a missing file as a malformed one.
load_books_MissingIsFault(f) ==
    IF ~f.exists \/ ~json_load(f.text).ok
    THEN [raised |-> "none", fault |-> TRUE, books |-> <<>>]
    ELSE LET r == LoadEntries(json_load(f.text).val, <<>>)
         IN  [raised |-> r.raised, fault |-> FALSE, books |-> r.books]

\* Library.load_books: the books it leaves in memory, whether it reported a
\* fault, and the exception it let through.
load_books(f) ==
    IF ~f.exists THEN [raised |-> "none", fault |-> FALSE, books |-> <<>>]
    ELSE IF ~json_load(f.text).ok
         THEN [raised |-> "none", fault |-> TRUE, books |-> <<>>]
         ELSE LET r == LoadEntries(json_load(f.text).val, <<>>)
              IN  [raised |-> r.raised, fault |-> FALSE, books |-> r.books]

\* The characters of the strings the books of the model hold.
Chars(s) ==
    CASE s = "Dune" -> << "D", "u", "n", "e" >>
      [] s = "Vojna" -> << "V", "o", "j", "n", "a" >>
      [] s = "Sun" -> << "S", "u", "n" >>
      [] s = "Silva" -> << "S", "i", "l", "v", "a" >>
      [] s = "Lem" -> << "L", "e", "m" >>
      [] s = AVAILABLE ->
             << "v", " ", "n", "a", "l", "i", "c", "h", "i", "i" >>
      [] s = LOANED -> << "v", "y", "d", "a", "n", "a" >>
      [] s = "lost" -> << "l", "o", "s", "t" >>

\* str of a natural number: its decimal digits.
RECURSIVE Digits(_)
Digits(n) ==
    LET d == << "0", "1", "2", "3", "4", "5", "6", "7", "8", "9" >>
    IN  IF n < 10 THEN << d[n + 1] >>
        ELSE Digits(n \div 10) \o << d[(n % 10) + 1] >>

\* str(value) of a value of a book, given as the JSON value it dumps to.
str(value) == IF value.t = "num" THEN Digits(value.n) ELSE Chars(value.s)

UpperCase ==
    << "A", "B", "C", "D", "E", "F", "G", "H", "I", "J", "K", "L", "M",
       "N", "O", "P", "Q", "R", "S", "T", "U", "V", "W", "X", "Y", "Z" >>
LowerCase ==
    << "a", "b", "c", "d", "e", "f", "g", "h", "i", "j", "k", "l", "m",
       "n", "o", "p", "q", "r", "s", "t", "u", "v", "w", "x", "y", "z" >>

\* str.lower, on the characters of the model.
lower(chars) ==
    [i \in 1 .. Len(chars) |->
        IF \E k \in 1 .. 26 : UpperCase[k] = chars[i]
        THEN LowerCase[CHOOSE k \in 1 .. 26 : UpperCase[k] = chars[i]]
        ELSE chars[i]]

\* The operator in on two strings: sub occurs in chars.
In(sub, chars) ==
    \E k \in 0 .. (Len(chars) - Len(sub)) :
        SubSeq(chars, k + 1, k + Len(sub)) = sub

\* The attributes of a Book object.
BookAttrs == {"id", "title", "author", "year", "status"}

\* getattr(book, field), for a field that is an attribute of the book.
getattr(book, field) ==
    IF field \in {"id", "year"} THEN Num(book[field]) ELSE Str(book[field])

\* A mutant of search_books that compares without lowering the case.
search_books_CaseSensitive(bks, query, field) ==
    IF bks # <<>> /\ field \notin BookAttrs
    THEN [raised |-> "AttributeError", found |-> <<>>]
    ELSE [raised |-> "none",
          found |-> SelectSeq(bks, LAMBDA book :
                        In(query, str(getattr(book, field))))]

\* Library.search_books: the books whose field, as a lower-case string, has
\* the lower-case query in it; getattr raises AttributeError on the first
\* book when the field is no attribute, and is not called without a book.
search_books(bks, query, field) ==
    IF bks # <<>> /\ field \notin BookAttrs
    THEN [raised |-> "AttributeError", found |-> <<>>]
    ELSE [raised |-> "none",
          found |-> SelectSeq(bks, LAMBDA book :
                        In(lower(query), lower(str(getattr(book, field)))))]

\* ------------------------------------------------------- initial files
SampleA == [id |-> 1, title |-> "Dune", author |-> "Silva", year |-> 1965,
            status |-> AVAILABLE]
SampleB == [id |-> 2, title |-> "Vojna", author |-> "Silva", year |-> 1965,
            status |-> LOANED]

\* A third book, for the searches.
SampleC == [id |-> 3, title |-> "Sun", author |-> "Lem", year |-> 1961,
            status |-> AVAILABLE]

\* The pairs of a dict without the key k.
Without(pairs, k) == SelectSeq(pairs, LAMBDA p : p.k # k)

\* A text json.load rejects and no write of save_books leaves behind, whole
\* or cut short: an object that is never closed.
UnclosedText ==
    << Punct("["), Punct("{"), Member("id", Num(1)), Punct("]") >>

\* Texts that json.load rejects: an empty file, and the unclosed object.
MalformedTexts == { <<>>, UnclosedText }

\* Texts written by save_books: arrays of whole books, one of them written
\* after the book with id 2 was deleted.
WellFormedTexts ==
    { Serialize(<<>>), Serialize(<< SampleA >>),
      Serialize(<< SampleA, SampleB >>),
      Serialize(<< SampleA, [SampleB EXCEPT !.id = 3] >>) }

\* Valid JSON that save_books never writes: two entries with one id, and an
\* entry whose status is neither literal.
ForeignTexts ==
    { Serialize(<< SampleA, [SampleB EXCEPT !.id = 1] >>),
      Serialize(<< [SampleA EXCEPT !.status = "lost"] >>) }

\* Valid JSON with an entry that lacks a key, first or second in the array.
MissingFieldTexts ==
    { json_dump(<< Without(to_dict(SampleA), "year"), to_dict(SampleB) >>),
      json_dump(<< to_dict(SampleA), Without(to_dict(SampleB), "status") >>) }

\* Valid JSON with an entry that has a key load_books does not read.
ExtraFieldTexts ==
    { json_dump(<< to_dict(SampleA) \o << Member("isbn", Str("x")) >> >>) }

\* The backing files a Library may be constructed on.
InitFiles ==
    { NoFile } \cup
    { FileOf(t) : t \in MalformedTexts \cup WellFormedTexts \cup ForeignTexts
                        \cup MissingFieldTexts \cup ExtraFieldTexts }

\* ---------------------------------------------------------------- history
\* No arguments.
NoArg == [id |-> 0, title |-> "", author |-> "", year |-> 0, status |-> ""]

\* The record of an operation: which it was, the arguments it mutated the
\* books with (NoArg when it mutated nothing), the exception it raised to
\* its caller ("none": it returned), what the exception was about, how its
\* save ended ("none": it did not save), whether the append of log_error
\* went through (TRUE when it reported nothing), and what it returned (the
\* empty list for None: none of these operations has a return statement).
Did(op, arg, raised, msg, save, logok) ==
    [op |-> op, arg |-> arg, raised |-> raised, msg |-> msg, save |-> save,
     logok |-> logok, ret |-> <<>>]

Init ==
    /\ pc = "new"
    /\ books = <<>>
    /\ file \in InitFiles
    /\ errlog = <<>>
    /\ reported = 0
    /\ failed = 0
    /\ last = Did("none", NoArg, "none", "", "none", TRUE)

\* ---------------------------------------------------------------- actions
\* Library.__init__: an empty list of books, then load_books.
Construct ==
    /\ pc = "new"
    /\ LET r == load_books(file)
       IN  \E logok \in (IF r.fault THEN BOOLEAN ELSE {TRUE}) :
              /\ pc' = IF r.raised = "none" THEN "ready" ELSE "raised"
              /\ books' = r.books
              /\ reported' = IF r.fault THEN reported + 1 ELSE reported
              /\ errlog' = IF r.fault THEN log_error(errlog, "load", logok)
                           ELSE errlog
              /\ last' = Did("load", NoArg, r.raised, "", "none", logok)
    /\ UNCHANGED << file, failed >>

\* The call of save_books that ends a mutation of the books into bks: the
\* file it leaves, and the fault it reports when the write failed.
Persist(bks, outcome, cut, logok) ==
    /\ outcome # "ok" => failed < MaxFaults
    /\ file' = save_books(bks, file, outcome, cut)
    /\ failed' = IF outcome = "ok" THEN failed ELSE failed + 1
    /\ reported' = IF outcome = "ok" THEN reported ELSE reported + 1
    /\ errlog' = IF outcome = "ok" THEN errlog
                 ELSE log_error(errlog, "save", logok)

\* The places the write can stop at, for a save ending in outcome.
CutsFor(outcome) == IF outcome = "write_fail" THEN CutPoints ELSE {"end"}

\* Whether the append to the error log can fail, for a save ending in outcome.
LogOksFor(outcome) == IF outcome = "ok" THEN {TRUE} ELSE BOOLEAN

\* Library.add_book.
AddBook(title, author, year) ==
    /\ pc = "ready"
    /\ Len(books) < MaxBooks
    /\ generate_id(books) <= MaxId
    /\ LET book == [Book(title, author, year) EXCEPT !.id = generate_id(books)]
           bks == Append(books, book)
       IN  \E outcome \in SaveOutcomes :
           \E cut \in CutsFor(outcome), logok \in LogOksFor(outcome) :
              /\ last' = Did("add",
                             [NoArg EXCEPT !.title = title,
                                 !.author = author, !.year = year],
                             "none", "", outcome, logok)
              /\ books' = bks
              /\ Persist(bks, outcome, cut, logok)
    /\ UNCHANGED pc

\* Library.delete_book.
DeleteBook(book_id) ==
    /\ pc = "ready"
    /\ LET i == find_book_by_id(books, book_id)
       IN  IF i # 0
           THEN LET bks == RemoveAt(books, i)
                IN  \E outcome \in SaveOutcomes :
                    \E cut \in CutsFor(outcome),
                       logok \in LogOksFor(outcome) :
                       /\ last' = Did("delete", [NoArg EXCEPT !.id = book_id],
                                      "none", "", outcome, logok)
                       /\ books' = bks
                       /\ Persist(bks, outcome, cut, logok)
           ELSE /\ last' = Did("delete", NoArg, "ValueError", "not_found",
                               "none",
                               TRUE)
                /\ UNCHANGED << books, file, errlog, reported, failed >>
    /\ UNCHANGED pc

\* Library.change_book_status.
ChangeBookStatus(book_id, new_status) ==
    /\ pc = "ready"
    /\ LET i == find_book_by_id(books, book_id)
       IN  IF new_status \notin StatusLiterals
           THEN /\ last' = Did("status", NoArg, "ValueError",
                               "invalid_status", "none", TRUE)
                /\ UNCHANGED << books, file, errlog, reported, failed >>
           ELSE IF i # 0
           THEN LET bks == [books EXCEPT ![i].status = new_status]
                IN  \E outcome \in SaveOutcomes :
                    \E cut \in CutsFor(outcome),
                       logok \in LogOksFor(outcome) :
                       /\ last' = Did("status",
                                      [NoArg EXCEPT !.id = book_id,
                                          !.status = new_status],
                                      "none", "", outcome, logok)
                       /\ books' = bks
                       /\ Persist(bks, outcome, cut, logok)
           ELSE /\ last' = Did("status", NoArg, "ValueError", "not_found",
                               "none",
                               TRUE)
                /\ UNCHANGED << books, file, errlog, reported, failed >>
    /\ UNCHANGED pc

Next ==
    \/ Construct
    \/ \E title \in Titles, author \in Authors, year \in Years :
           AddBook(title, author, year)
    \/ \E book_id \in IdInputs : DeleteBook(book_id)
    \/ \E book_id \in IdInputs, new_status \in StatusInputs :
           ChangeBookStatus(book_id, new_status)

Spec == Init /\ [][Next]_vars

\* The Library constructed on a path with no file behind it.
InitMissing == Init /\ file = NoFile

SpecMissing == InitMissing /\ [][Next]_vars

\* The Library constructed on a file of whole entries, written by save_books
\* or by hand.
InitStored ==
    Init /\ file \in { FileOf(t) : t \in WellFormedTexts \cup ForeignTexts }

SpecStored == InitStored /\ [][Next]_vars

\* The Library constructed on a file json.load rejects.
InitMalformed == Init /\ file \in { FileOf(t) : t \in MalformedTexts }

SpecMalformed == InitMalformed /\ [][Next]_vars

\* ----------------------------------------------------------------- search
\* search_books reads the books and changes nothing, so the steps above
\* leave it out; here it is applied to the lists a Library can hold.

\* The fields the menu lets through to search_books.
SearchFields == {"title", "author", "year"}

\* Fields a caller may pass: the three, two other attributes of a Book, and
\* a name that is no attribute.
FieldInputs == SearchFields \cup {"id", "status", "isbn"}

\* Queries a caller may pass, as characters: empty, in the middle of a
\* title, in another case than the book's, digits, and one nothing holds.
Queries ==
    { <<>>, << "u", "n" >>, << "U", "N" >>, << "d" >>, << "S" >>,
      << "l", "v" >>, << "9", "6" >>, << "6", "5" >>, << "1" >>, << "x" >> }

\* The lists of books searched: up to MaxBooks of the three samples, each
\* at most once, in any order.
SearchCollections ==
    { bks \in UNION { [1 .. n -> {SampleA, SampleB, SampleC}] :
                         n \in 0 .. MaxBooks } :
         \A i, j \in 1 .. Len(bks) : i # j => bks[i] # bks[j] }

\* The record of a call of search_books: its arguments, the exception it
\* raised ("none": it returned) and the list it returned.
Searched(query, field, raised, found) ==
    [op |-> "search", query |-> query, field |-> field, raised |-> raised,
     found |-> found]

InitSearch ==
    /\ pc = "ready"
    /\ books \in SearchCollections
    /\ file = FileOf(Serialize(books))
    /\ errlog = <<>>
    /\ reported = 0
    /\ failed = 0
    /\ last = Did("none", NoArg, "none", "", "none", TRUE)

\* Library.search_books.
SearchBooks(query, field) ==
    /\ pc = "ready"
    /\ LET r == search_books(books, query, field)
       IN  last' = Searched(query, field, r.raised, r.found)
    /\ UNCHANGED << pc, books, file, errlog, reported, failed >>

NextSearch ==
    \E query \in Queries, field \in FieldInputs : SearchBooks(query, field)

SpecSearch == InitSearch /\ [][NextSearch]_vars

\* ----------------------------------------------------------------- claims
\* The ids of the books of a list.
Ids(bks) == { bks[i].id : i \in 1 .. Len(bks) }

\* The largest number of a finite set of naturals, 0 for the empty set.
MaxOf(S) == IF S = {} THEN 0 ELSE CHOOSE m \in S : \A n \in S : n <= m

\* A step that is a call of a mutating operation that went on to save.
IsMutation == last'.op \in {"add", "delete", "status"} /\ last'.save # "none"

\* A step that is the construction of the Library.
IsConstruct == pc = "new" /\ pc' # "new"

\* C1: a Library constructed on a missing file and driven by add_book and
\* delete_book, succeeding or failing, never holds two books with one id.
C1_UniqueIds ==
    \A i, j \in 1 .. Len(books) : i # j => books[i].id # books[j].id

\* Ids 1 and 2 were created, 1 deleted, 3 created, and a delete then failed.
C1_Witness ==
    /\ last.op = "delete" /\ last.raised = "ValueError"
    /\ Len(books) = 2 /\ books[1].id = 2 /\ books[2].id = 3

\* C2: add_book gives the new book the id 1 + max(ids present, default 0),
\* which is greater than every id present at the call, also after deletions.
C2_NextId ==
    [][last'.op = "add" /\ vars' # vars =>
          /\ Len(books') = Len(books) + 1
          /\ books'[Len(books')].id = 1 + MaxOf(Ids(books))
          /\ \A i \in 1 .. Len(books) : books[i].id < books'[Len(books')].id
      ]_vars

\* An add after the deletion of id 1 out of ids 1, 2: the new id is 3, not 1.
C2_Witness ==
    /\ last.op = "add"
    /\ Len(books) = 2 /\ books[1].id = 2 /\ books[2].id = 3

\* The entries of a JSON text are the dicts of the books bks, in order.
HoldsExactly(text, bks) ==
    LET p == json_load(text)
    IN  /\ p.ok
        /\ Len(p.val) = Len(bks)
        /\ \A i \in 1 .. Len(bks) :
              /\ DOMAIN p.val[i] = {"id", "title", "author", "year", "status"}
              /\ p.val[i]["id"] = Num(bks[i].id)
              /\ p.val[i]["title"] = Str(bks[i].title)
              /\ p.val[i]["author"] = Str(bks[i].author)
              /\ p.val[i]["year"] = Num(bks[i].year)
              /\ p.val[i]["status"] = Str(bks[i].status)

\* C3: after a mutating operation that succeeded and whose write did not
\* fail, the file holds exactly the books in memory: the same records with
\* the same fields in the same order.
C3_FileIsCollection ==
    (last.op \in {"add", "delete", "status"} /\ last.save = "ok") =>
        file.exists /\ HoldsExactly(file.text, books)

\* A status change on the second of two books was written.
C3_Witness ==
    /\ last.op = "status" /\ last.save = "ok"
    /\ Len(books) = 2 /\ books[2].status = LOANED
    /\ HoldsExactly(file.text, books)

\* C4: when the write of the save of add_book, delete_book or
\* change_book_status fails, the operation returns without raising, the
\* books keep the mutation, and the failure is reported through log_error
\* (one call, and one entry in the log unless that append fails too).
C4_FailedSaveKeepsMutation ==
    [][(IsMutation /\ last'.save # "ok") =>
          /\ last'.raised = "none" /\ pc' = "ready"
          /\ reported' = reported + 1
          /\ errlog' = IF last'.logok
                       THEN Append(errlog, [error |-> "save"]) ELSE errlog
          /\ last'.op = "add" =>
                /\ Len(books') = Len(books) + 1
                /\ SubSeq(books', 1, Len(books)) = books
                /\ books'[Len(books')].title = last'.arg.title
                /\ books'[Len(books')].author = last'.arg.author
                /\ books'[Len(books')].year = last'.arg.year
          /\ last'.op = "delete" =>
                \E i \in 1 .. Len(books) :
                    /\ books[i].id = last'.arg.id
                    /\ \A j \in 1 .. (i - 1) : books[j].id # last'.arg.id
                    /\ books' = SubSeq(books, 1, i - 1) \o
                                SubSeq(books, i + 1, Len(books))
          /\ last'.op = "status" =>
                \E i \in 1 .. Len(books) :
                    /\ books[i].id = last'.arg.id
                    /\ \A j \in 1 .. (i - 1) : books[j].id # last'.arg.id
                    /\ books' = [books EXCEPT ![i].status = last'.arg.status]
      ]_vars

\* A delete whose write failed after the truncation: the book is gone from
\* memory, the fault is in the log, and the file is not what memory holds.
C4_Witness ==
    /\ last.op = "delete" /\ last.save = "write_fail" /\ last.logok
    /\ pc = "ready" /\ last.raised = "none"
    /\ Len(books) = 1 /\ reported = 1 /\ errlog = << [error |-> "save"] >>
    /\ ~HoldsExactly(file.text, books)

\* C5: a completed save_books, failed or not, leaves in the file either what
\* was there before or the whole current collection, never a part of one.
C5_SaveIsAtomic ==
    [][IsMutation =>
          \/ file' = file
          \/ file'.exists /\ HoldsExactly(file'.text, books')
      ]_vars

\* C6: constructing a Library on a file of invalid JSON gives no books,
\* reports exactly one fault, raises nothing and leaves the file as it was.
C6_MalformedLoad ==
    [][(IsConstruct /\ file.exists /\ file.text \in MalformedTexts) =>
          /\ pc' = "ready" /\ last'.raised = "none"
          /\ books' = <<>>
          /\ reported' = reported + 1
          /\ errlog' = IF last'.logok
                       THEN Append(errlog, [error |-> "load"]) ELSE errlog
          /\ file' = file
      ]_vars

\* A Library just constructed on a text cut short.
C6_Witness ==
    /\ last.op = "load" /\ pc = "ready"
    /\ file.exists /\ file.text = UnclosedText
    /\ books = <<>> /\ reported = 1 /\ errlog = << [error |-> "load"] >>

\* C7: constructing a Library on valid JSON with an entry that lacks a field
\* or has an unexpected one is handled like malformed content: the fault is
\* reported, no books are kept, and nothing is raised.
C7_BadEntryLoad ==
    [][(IsConstruct /\ file.exists
            /\ file.text \in MissingFieldTexts \cup ExtraFieldTexts) =>
          /\ pc' = "ready" /\ last'.raised = "none"
          /\ books' = <<>>
          /\ reported' = reported + 1
      ]_vars

\* C8: constructing a Library on a path with no file gives no books, reports
\* no fault and raises nothing.
C8_MissingLoad ==
    [][(IsConstruct /\ ~file.exists) =>
          /\ pc' = "ready" /\ last'.raised = "none"
          /\ books' = <<>>
          /\ reported' = reported /\ errlog' = errlog
          /\ file' = file
      ]_vars

\* A Library just constructed on a missing file.
C8_Witness ==
    /\ last.op = "load" /\ pc = "ready" /\ ~file.exists
    /\ books = <<>> /\ reported = 0 /\ errlog = <<>>

\* C9: after a save that succeeded, loading the file into a fresh Library
\* gives the books in memory: as many, in the same order, with every field
\* of every book equal.
C9_RoundTrip ==
    (last.op \in {"add", "delete", "status"} /\ last.save = "ok"
        /\ books # <<>>) =>
        /\ file.exists
        /\ load_books(file).raised = "none"
        /\ ~load_books(file).fault
        /\ Len(load_books(file).books) = Len(books)
        /\ \A i \in 1 .. Len(books) :
              /\ load_books(file).books[i].id = books[i].id
              /\ load_books(file).books[i].title = books[i].title
              /\ load_books(file).books[i].author = books[i].author
              /\ load_books(file).books[i].year = books[i].year
              /\ load_books(file).books[i].status = books[i].status

\* Two books with different titles and statuses were saved.
C9_Witness ==
    /\ last.save = "ok" /\ Len(books) = 2
    /\ books[1].title # books[2].title /\ books[1].status # books[2].status
    /\ load_books(file).books = books

\* C10: delete_book of an id no book has raises the not-found ValueError and
\* leaves the books and the file as they were, without saving.
C10_DeleteMissing ==
    [][\A id \in IdInputs :
          (id \notin Ids(books) /\ DeleteBook(id)) =>
              /\ last'.raised = "ValueError" /\ last'.msg = "not_found"
              /\ last'.save = "none"
              /\ books' = books /\ file' = file
              /\ reported' = reported /\ errlog' = errlog
      ]_vars

\* A delete of a missing id failed on a Library that holds books and a file.
C10_Witness ==
    /\ last.op = "delete" /\ last.raised = "ValueError"
    /\ last.msg = "not_found" /\ last.save = "none"
    /\ books # <<>> /\ file.exists

\* C11: change_book_status raises the invalid-status ValueError whenever the
\* new status is neither of the two literals, whether or not a book has the
\* id, and the not-found ValueError when the status is one of them and no
\* book has the id; either way the books and the file stay as they were.
\* It returns only for one of the two literals and an id a book has.
C11_StatusFailures ==
    [][last'.op = "status" =>
          /\ last'.raised = "none" =>
                 /\ last'.arg.status \in {AVAILABLE, LOANED}
                 /\ last'.arg.id \in Ids(books)
          /\ last'.raised # "none" =>
                 /\ last'.raised = "ValueError" /\ last'.save = "none"
                 /\ books' = books /\ file' = file
                 /\ \A id \in IdInputs, st \in StatusInputs :
                        ((st \notin {AVAILABLE, LOANED}
                             \/ id \notin Ids(books))
                            /\ ChangeBookStatus(id, st)) =>
                            last'.msg = IF st \notin {AVAILABLE, LOANED}
                                        THEN "invalid_status"
                                        ELSE "not_found"
      ]_vars

\* A change to an unknown status was refused on a Library that holds a book
\* and a file of it.
C11_Witness ==
    /\ last.op = "status" /\ last.raised = "ValueError"
    /\ last.msg = "invalid_status"
    /\ books # <<>> /\ file.exists /\ HoldsExactly(file.text, books)

\* C12: a change_book_status that returns sets the status of the first book
\* with the id, so that find_book_by_id of the id gives a book with the new
\* status; the id, title, author and year of that book, every other book
\* and the order of the books stay as they were.
C12_StatusChange ==
    [][(last'.op = "status" /\ last'.raised = "none") =>
          LET id == last'.arg.id
              st == last'.arg.status
              i == CHOOSE j \in 1 .. Len(books) :
                       /\ books[j].id = id
                       /\ \A k \in 1 .. (j - 1) : books[k].id # id
              found == find_book_by_id(books', id)
          IN  /\ id \in Ids(books)
              /\ Len(books') = Len(books)
              /\ found # 0 /\ books'[found].status = st
              /\ books'[found].id = id
              /\ books'[i] = [books[i] EXCEPT !.status = st]
              /\ \A j \in 1 .. Len(books) : j # i => books'[j] = books[j]
      ]_vars

\* A status change went through on one of two books and left the other
\* with the other status.
C12_Witness ==
    /\ last.op = "status" /\ last.raised = "none" /\ Len(books) = 2
    /\ \E i, j \in 1 .. 2 :
          /\ i # j
          /\ books[i].id = last.arg.id /\ books[i].status = last.arg.status
          /\ books[j].id # last.arg.id /\ books[j].status # last.arg.status

\* C13: in every state of a Library that was constructed, the file it loaded
\* included, the status of every book is one of the two literals.
C13_StatusIsLiteral ==
    pc = "ready" =>
        \A i \in 1 .. Len(books) : books[i].status \in {AVAILABLE, LOANED}

\* C14: in every state of a Library that was constructed, the file it loaded
\* included, no id is held by two books.
C14_UniqueIdsLoaded ==
    pc = "ready" => Cardinality(Ids(books)) = Len(books)

\* The positions of the books of bks whose field, written out, has the
\* query in it at some offset, letter case aside.
Matching(bks, query, field) ==
    { i \in 1 .. Len(bks) :
         LET value == str(getattr(bks[i], field))
         IN  \E off \in 0 .. (Len(value) - Len(query)) :
                \A k \in 1 .. Len(query) :
                    lower(<< value[off + k] >>) = lower(<< query[k] >>) }

\* C15: search_books on title, author or year returns exactly the books
\* whose field, as a string, contains the query as a substring whatever the
\* letter case, each once and in the order of the books; the empty query
\* returns all the books.
C15_SearchExact ==
    (last.op = "search" /\ last.field \in {"title", "author", "year"}) =>
        LET M == Matching(books, last.query, last.field)
        IN  /\ last.raised = "none"
            /\ Len(last.found) = Cardinality(M)
            /\ \E f \in [1 .. Len(last.found) -> M] :
                  /\ \A j, k \in 1 .. Len(last.found) : j < k => f[j] < f[k]
                  /\ \A j \in 1 .. Len(last.found) :
                        last.found[j] = books[f[j]]
            /\ last.query = <<>> => last.found = books

\* A search of two books by title, with a query in another case than the
\* title's, found the second book and not the first.
C15_Witness ==
    /\ last.op = "search" /\ last.field = "title"
    /\ last.query = << "U", "N" >>
    /\ Len(books) = 2 /\ last.found = << books[2] >>

\* C16: search_books on a field other than title, author and year, id and
\* status included, raises whatever books the Library holds, none included,
\* and returns no result.
C16_InvalidFieldFails ==
    (last.op = "search" /\ last.field \notin {"title", "author", "year"})
        => last.raised # "none"

\* C17: add_book appends one book with the given title, author and year and
\* the status AVAILABLE at the end of the books, leaves the books it found
\* and their order as they were, saves, and returns the new book.
C17_CreateReturnsRecord ==
    [][last'.op = "add" =>
          LET new == books'[Len(books')]
          IN  /\ Len(books') = Len(books) + 1
              /\ SubSeq(books', 1, Len(books)) = books
              /\ new.title = last'.arg.title
              /\ new.author = last'.arg.author
              /\ new.year = last'.arg.year
              /\ new.status = AVAILABLE
              /\ last'.save # "none"
              /\ last'.save = "ok" =>
                     file'.exists /\ HoldsExactly(file'.text, books')
              /\ last'.ret = << new >>
      ]_vars

\* An add_book that follows the delete_book of the book with the largest id.
AddAfterLargestDeleted ==
    /\ last'.op = "add"
    /\ last.op = "delete" /\ last.raised = "none"
    /\ last.arg.id > MaxOf(Ids(books))

\* C18, as stated: when the book with the largest id is deleted, the next
\* add_book gives its book that same id again, and id 1 when no book is left.
C18_LargestIdReused ==
    [][AddAfterLargestDeleted =>
          books'[Len(books')].id = IF books = <<>> THEN 1 ELSE last.arg.id
      ]_vars

\* C18, amended: when the book with the largest id is deleted, the next
\* add_book gives its book 1 + the largest id left (1 when no book is left),
\* whatever ids were given before: never an id above the deleted one, and
\* the deleted one again exactly when it was 1 + the largest id left.
C18_IdFromCurrentIds ==
    [][AddAfterLargestDeleted =>
          LET new == books'[Len(books')].id
          IN  /\ new = 1 + MaxOf(Ids(books))
              /\ new <= last.arg.id
              /\ new = last.arg.id <=> last.arg.id = 1 + MaxOf(Ids(books))
      ]_vars

\* The book with the largest id was deleted from a Library that still holds
\* a book, and generate_id gives the deleted id again.
C18_Witness ==
    /\ pc = "ready"
    /\ last.op = "delete" /\ last.raised = "none"
    /\ books # <<>> /\ last.arg.id > MaxOf(Ids(books))
    /\ generate_id(books) = last.arg.id

C20_ConsistencyRestored ==
    [][(IsMutation /\ last'.save = "ok" /\ failed > 0
           /\ ~(file.exists /\ HoldsExactly(file.text, books))) =>
          file'.exists /\ HoldsExactly(file'.text, books')
      ]_vars

\* After a write that failed, a write went through and the file is the two
\* books in memory.
C20_Witness ==
    /\ last.save = "ok" /\ failed > 0 /\ Len(books) = 2
    /\ file.exists /\ HoldsExactly(file.text, books)
    /\ load_books(file).books = books

====
